---- MODULE Spec2Model ----
(***************************************************************************)
(* QRCraftly's WCAG contrast checker: src/scripts/contrast_check.py and    *)
(* src/scripts/contrast_check_proposed.py.                                 *)
(*                                                                         *)
(* Data representation                                                     *)
(*   - A Python str is a sequence of one-character strings.                *)
(*   - A Python exception is the name of its class; a call returns the     *)
(*     record [err, val], err = "" when it returned val.                   *)
(*   - A scenario's 'bg' is <<label>> for a plain label and                *)
(*     <<overlay, opacity, base>> for the tuple form, the opacity literal  *)
(*     written in tenths (3 is the literal 0.3).                           *)
(*   - The floats of blend_color are IEEE-754 doubles, held exactly as an  *)
(*     integer number of units of 2^-56 in three limbs <<a, b, c>>,        *)
(*     a * 2^40 + b * 2^20 + c, with b, c in 0 .. 2^20 - 1 and a signed;   *)
(*     every operation rounds to 53 significant bits, ties to even.        *)
(*   - Luminance is fixed point: the gamma step of line 33 is tabulated    *)
(*     for the 256 channel values to 13 fractional bits, and a contrast    *)
(*     ratio is the exact fraction <<num, den>> of two such luminances.    *)
(*     Ratios agree with the script's doubles to about three digits.       *)
(***************************************************************************)
EXTENDS Integers, Sequences, FiniteSets, TLC

VARIABLES
    script,      \* which of the two scripts runs
    scenarios,   \* the scenarios the for loop has taken so far
    rows,        \* the rows printed so far
    verdicts,    \* the values of the loop's names at each print
    status,      \* "running", "done", or the exception that ended the script
    bg_rgb, fg_rgb, ratio, min_ratio, passed, aaa_ratio, aaa_passed, level,
                 \* the module-level names the loop body assigns
    call,        \* a single call of one function: its name and arguments
    ret          \* what that call returned

loopvars == <<bg_rgb, fg_rgb, ratio, min_ratio, passed, aaa_ratio, aaa_passed, level>>
vars == <<script, scenarios, rows, verdicts, status, loopvars, call, ret>>

Ok(v) == [err |-> "", val |-> v]
Raise(e) == [err |-> e, val |-> <<>>]

Min(x, y) == IF x <= y THEN x ELSE y
Max(x, y) == IF x >= y THEN x ELSE y

(***************************************************************************)
(* Bounds of the model.                                                    *)
(***************************************************************************)
MaxScenarios == 3
MaxHexLen == 7
MaxHashes == 2
MaxSignedLen == 6
MaxRatioHundredths == 2200
OpacityBelow == 3
OpacityAbove == 3

(***************************************************************************)
(* hex_to_rgb                                                              *)
(***************************************************************************)
HexValue ==
    ( "0" :> 0 @@ "1" :> 1 @@ "2" :> 2 @@ "3" :> 3 @@ "4" :> 4 @@ "5" :> 5 @@
      "6" :> 6 @@ "7" :> 7 @@ "8" :> 8 @@ "9" :> 9 @@
      "a" :> 10 @@ "b" :> 11 @@ "c" :> 12 @@ "d" :> 13 @@ "e" :> 14 @@ "f" :> 15 @@
      "A" :> 10 @@ "B" :> 11 @@ "C" :> 12 @@ "D" :> 13 @@ "E" :> 14 @@ "F" :> 15 )

IsHexDigit(c) == c \in DOMAIN HexValue

\* str.lstrip(ch): every leading ch is removed, not only the first
RECURSIVE LStrip(_, _)
LStrip(s, ch) ==
    IF s # <<>> /\ Head(s) = ch THEN LStrip(Tail(s), ch) ELSE s

\* s[i:j] for 0 <= i <= j: Python clamps a slice to the string
Slice(s, i, j) == SubSeq(s, Min(i, Len(s)) + 1, Min(j, Len(s)))

\* the digits of int(s, 16), most significant first
RECURSIVE HexNumber(_)
HexNumber(s) ==
    IF s = <<>> THEN 0 ELSE 16 * HexNumber(SubSeq(s, 1, Len(s) - 1)) + HexValue[s[Len(s)]]

\* int(s, 16): an optional sign, then at least one hexadecimal digit.
\* (Whitespace, underscores and a 0x prefix, which int also takes, are
\* outside the alphabet of the strings drawn here.)
PyInt16(s) ==
    LET signed == s # <<>> /\ Head(s) \in {"+", "-"}
        digits == IF signed THEN Tail(s) ELSE s
    IN  IF digits = <<>> \/ \E k \in DOMAIN digits : ~IsHexDigit(digits[k])
        THEN Raise("ValueError")
        ELSE Ok(IF signed /\ Head(s) = "-" THEN 0 - HexNumber(digits) ELSE HexNumber(digits))

\* the mutant of HexToRgb without the lstrip of line 17
HexToRgbNoStrip(hex_color) ==
    LET r == PyInt16(Slice(hex_color, 0, 2))
        g == PyInt16(Slice(hex_color, 2, 4))
        b == PyInt16(Slice(hex_color, 4, 6))
    IN  IF r.err # "" THEN r
        ELSE IF g.err # "" THEN g
        ELSE IF b.err # "" THEN b
        ELSE Ok(<<r.val, g.val, b.val>>)

HexToRgb(hex_color) ==
    LET h == LStrip(hex_color, "#")
        r == PyInt16(Slice(h, 0, 2))
        g == PyInt16(Slice(h, 2, 4))
        b == PyInt16(Slice(h, 4, 6))
    IN  IF r.err # "" THEN r
        ELSE IF g.err # "" THEN g
        ELSE IF b.err # "" THEN b
        ELSE Ok(<<r.val, g.val, b.val>>)

(***************************************************************************)
(* The double-precision arithmetic of blend_color.  A double is held as    *)
(* <<a, b, c>>, the integer a * 2^40 + b * 2^20 + c counted in units of    *)
(* 2^-56; this is exact for every double met here: the opacities and 1.0   *)
(* minus them are multiples of 2^-56 of magnitude at most 2, and the       *)
(* channels are integers in 0..255.                                        *)
(***************************************************************************)
Limb == 2 ^ 20

\* carries propagated so that the two low limbs lie in 0 .. Limb - 1
FNorm(a, b, c) ==
    LET b1 == b + (c \div Limb)
    IN  <<a + (b1 \div Limb), b1 % Limb, c % Limb>>

FNeg(x) == FNorm(0 - x[1], 0 - x[2], 0 - x[3])

FAbs(x) == IF x[1] < 0 THEN FNeg(x) ELSE x

RECURSIVE BitLen(_)
BitLen(n) == IF n = 0 THEN 0 ELSE 1 + BitLen(n \div 2)

\* round to 53 significant bits, to nearest, ties to even (IEEE-754 binary64)
FRound(x) ==
    LET m == FAbs(x)
        s == BitLen(m[1]) - 13          \* bits beyond the 53rd
        p == 2 ^ s
        rem == m[3] % p
        qodd == ((((m[2] % 2) * Limb + m[3]) \div p) % 2) = 1
        up == rem > p \div 2 \/ (rem = p \div 2 /\ qodd)
        r == IF m[1] < 2 ^ 13 THEN m
             ELSE FNorm(m[1], m[2], m[3] - rem + (IF up THEN p ELSE 0))
    IN  IF x[1] < 0 THEN FNeg(r) ELSE r

\* the exact product of an int k >= 0 and a double, the exact sum and difference
XMul(k, x) == FNorm(k * x[1], k * x[2], k * x[3])
XAdd(x, y) == FNorm(x[1] + y[1], x[2] + y[2], x[3] + y[3])
XSub(x, y) == FNorm(x[1] - y[1], x[2] - y[2], x[3] - y[3])

\* Python's  k * x  (int times float),  x + y  and  x - y  on floats
FMul(k, x) == FRound(XMul(k, x))
FAdd(x, y) == FRound(XAdd(x, y))
FSub(x, y) == FRound(XSub(x, y))

FOne == <<2 ^ 16, 0, 0>>

\* int(x): the integer part, truncated toward zero
FTrunc(x) == IF x[1] < 0 THEN 0 - (FNeg(x)[1] \div 2 ^ 16) ELSE x[1] \div 2 ^ 16

\* round(x) to the nearest integer (half away from zero), not what int() does
FNearest(x) == FTrunc(IF x[1] < 0 THEN XSub(x, <<2 ^ 15, 0, 0>>) ELSE XAdd(x, <<2 ^ 15, 0, 0>>))

\* floor(x)
FFloor(x) == x[1] \div 2 ^ 16

\* ceil(x), not what int() does
FCeil(x) == 0 - FFloor(FNeg(x))

\* round(x) as Python's builtin: to the nearest integer, a half to the even one
FNearestEven(x) ==
    LET f == FFloor(x)
        tie == x[1] % 2 ^ 16 = 2 ^ 15 /\ x[2] = 0 /\ x[3] = 0
    IN  IF tie THEN f + (f % 2) ELSE FFloor(XAdd(x, <<2 ^ 15, 0, 0>>))

\* The doubles CPython reads for the literals 0.0, 0.1, ..., 2.0.
FloatTenths ==
    << << 0, 0, 0 >>,
       << 6553, 629145, 629146 >>,
       << 13107, 209715, 209716 >>,
       << 19660, 838860, 838860 >>,
       << 26214, 419430, 419432 >>,
       << 32768, 0, 0 >>,
       << 39321, 629145, 629144 >>,
       << 45875, 209715, 209712 >>,
       << 52428, 838860, 838864 >>,
       << 58982, 419430, 419432 >>,
       << 65536, 0, 0 >>,
       << 72089, 629145, 629152 >>,
       << 78643, 209715, 209712 >>,
       << 85196, 838860, 838864 >>,
       << 91750, 419430, 419424 >>,
       << 98304, 0, 0 >>,
       << 104857, 629145, 629152 >>,
       << 111411, 209715, 209712 >>,
       << 117964, 838860, 838864 >>,
       << 124518, 419430, 419424 >>,
       << 131072, 0, 0 >> >>

\* the float of an opacity literal written in tenths (-0.3 is minus 0.3)
Opacity(tenths) ==
    IF tenths < 0 THEN FNeg(FloatTenths[1 - tenths]) ELSE FloatTenths[tenths + 1]

(***************************************************************************)
(* blend_color                                                             *)
(***************************************************************************)
\* the mutant of BlendChannel that rounds to the nearest integer, as round()
BlendChannelNearest(fg, bg, alpha) ==
    FNearest(FAdd(FMul(fg, alpha), FMul(bg, FSub(FOne, alpha))))

\* the mutant of BlendChannel that takes the next integer up, as math.ceil()
BlendChannelCeiling(fg, bg, alpha) ==
    FCeil(FAdd(FMul(fg, alpha), FMul(bg, FSub(FOne, alpha))))

BlendChannel(fg, bg, alpha) ==
    FTrunc(FAdd(FMul(fg, alpha), FMul(bg, FSub(FOne, alpha))))

\* zip stops at the shorter tuple
BlendColor(fg_rgb_, bg_rgb_, alpha) ==
    [i \in 1 .. Min(Len(fg_rgb_), Len(bg_rgb_)) |-> BlendChannel(fg_rgb_[i], bg_rgb_[i], alpha)]

(***************************************************************************)
(* luminance and contrast_ratio, in fixed point.  Linear[c + 1] is line    *)
(* 33 applied to the channel value c, that is to c / 255.0:                *)
(*   ((x + 0.055) / 1.055) ** 2.4  if x > 0.03928  else  x / 12.92,        *)
(* rounded to the nearest multiple of 1 / LumScale.  A luminance is an     *)
(* integer number of units of 1 / LumOne.                                  *)
(***************************************************************************)
LumScale == 2 ^ 13

Linear ==
    <<
       0, 2, 5, 7, 10, 12, 15, 17, 20, 22, 25, 27, 30, 33, 36, 39,
       42, 46, 50, 53, 57, 61, 66, 70, 75, 80, 85, 90, 95, 101, 106, 112,
       118, 125, 131, 138, 145, 152, 159, 166, 174, 182, 190, 198, 206, 215, 224, 233,
       242, 252, 261, 271, 281, 292, 302, 313, 324, 335, 347, 358, 370, 382, 395, 407,
       420, 433, 446, 460, 474, 488, 502, 516, 531, 546, 561, 576, 592, 608, 624, 641,
       657, 674, 691, 709, 726, 744, 762, 781, 799, 818, 838, 857, 877, 897, 917, 937,
       958, 979, 1001, 1022, 1044, 1066, 1088, 1111, 1134, 1157, 1181, 1204, 1228, 1253, 1277, 1302,
       1327, 1353, 1378, 1404, 1431, 1457, 1484, 1511, 1539, 1566, 1594, 1623, 1651, 1680, 1709, 1739,
       1768, 1798, 1829, 1859, 1890, 1921, 1953, 1985, 2017, 2049, 2082, 2115, 2148, 2182, 2216, 2250,
       2285, 2320, 2355, 2390, 2426, 2462, 2498, 2535, 2572, 2610, 2647, 2685, 2723, 2762, 2801, 2840,
       2880, 2920, 2960, 3000, 3041, 3082, 3124, 3166, 3208, 3250, 3293, 3336, 3380, 3423, 3467, 3512,
       3557, 3602, 3647, 3693, 3739, 3785, 3832, 3879, 3927, 3974, 4022, 4071, 4120, 4169, 4218, 4268,
       4318, 4369, 4419, 4471, 4522, 4574, 4626, 4679, 4732, 4785, 4838, 4892, 4947, 5001, 5056, 5111,
       5167, 5223, 5280, 5336, 5393, 5451, 5509, 5567, 5625, 5684, 5743, 5803, 5863, 5923, 5984, 6045,
       6106, 6168, 6230, 6293, 6356, 6419, 6482, 6546, 6611, 6675, 6740, 6806, 6871, 6938, 7004, 7071,
       7138, 7206, 7274, 7342, 7411, 7480, 7550, 7619, 7690, 7760, 7831, 7903, 7974, 8047, 8119, 8192 >>

LumOne == 10000 * LumScale

Luminance(rgb) ==
    2126 * Linear[rgb[1] + 1] + 7152 * Linear[rgb[2] + 1] + 722 * Linear[rgb[3] + 1]

\* the mutant of ContrastRatio that divides in argument order
ContrastRatioUnordered(rgb1, rgb2) ==
    <<Luminance(rgb1) + LumOne \div 20, Luminance(rgb2) + LumOne \div 20>>

\* the mutant of ContrastRatio that offsets by 0.04 instead of 0.05
ContrastRatioOffset(rgb1, rgb2) ==
    LET lum1 == Luminance(rgb1)
        lum2 == Luminance(rgb2)
    IN  <<Max(lum1, lum2) + LumOne \div 25, Min(lum1, lum2) + LumOne \div 25>>

\* the ratio as the fraction <<numerator, denominator>>
ContrastRatio(rgb1, rgb2) ==
    LET lum1 == Luminance(rgb1)
        lum2 == Luminance(rgb2)
        brightest == Max(lum1, lum2)
        darkest == Min(lum1, lum2)
    IN  <<brightest + LumOne \div 20, darkest + LumOne \div 20>>

\* the mutant of RatioGE that is strict
RatioGT(r, t) == r[1] * t[2] > t[1] * r[2]

\* r >= t for fractions with positive denominators
RatioGE(r, t) == r[1] * t[2] >= t[1] * r[2]

\* f"{ratio:.2f}": the ratio in hundredths, rounded to nearest
Format2(r) ==
    LET q == r[1] \div r[2]
        r0 == r[1] % r[2]
        d1 == (10 * r0) \div r[2]
        r1 == (10 * r0) % r[2]
        d2 == (10 * r1) \div r[2]
        r2 == (10 * r1) % r[2]
        h == 100 * q + 10 * d1 + d2
    IN  IF 2 * r2 > r[2] \/ (2 * r2 = r[2] /\ h % 2 = 1) THEN h + 1 ELSE h

(***************************************************************************)
(* The WCAG check of the loop body (contrast_check.py lines 152-168,       *)
(* contrast_check_proposed.py lines 115-131).  4.5 is the fraction 9/2.    *)
(***************************************************************************)
\* the mutant of MinRatio whose reset to 4.5 happens once, before the loop
MinRatioCarried(size) ==
    IF size = "large" THEN <<3, 1>>
    ELSE IF min_ratio = <<0, 1>> THEN <<9, 2>> ELSE min_ratio

MinRatio(size) == IF size = "large" THEN <<3, 1>> ELSE <<9, 2>>

AaaRatio(size) == IF size = "large" THEN <<9, 2>> ELSE <<7, 1>>

Level(passed_, aaa_passed_) ==
    IF aaa_passed_ THEN "AAA" ELSE IF passed_ THEN "AA" ELSE "Fail"

Classify(ratio_, size) ==
    LET mn == MinRatio(size)
        p == RatioGE(ratio_, mn)
        aaa == AaaRatio(size)
        ap == RatioGE(ratio_, aaa)
    IN  [min_ratio |-> mn, passed |-> p, aaa_ratio |-> aaa, aaa_passed |-> ap,
         level |-> Level(p, ap)]

(***************************************************************************)
(* The palette (both scripts, lines 68-95).                                *)
(***************************************************************************)
colors ==
  "white"      :> << "#", "f", "f", "f", "f", "f", "f" >> @@
  "black"      :> << "#", "0", "0", "0", "0", "0", "0" >> @@
  "slate-50"   :> << "#", "f", "8", "f", "a", "f", "c" >> @@
  "slate-100"  :> << "#", "f", "1", "f", "5", "f", "9" >> @@
  "slate-200"  :> << "#", "e", "2", "e", "8", "f", "0" >> @@
  "slate-300"  :> << "#", "c", "b", "d", "5", "e", "1" >> @@
  "slate-400"  :> << "#", "9", "4", "a", "3", "b", "8" >> @@
  "slate-600"  :> << "#", "4", "7", "5", "5", "6", "9" >> @@
  "slate-700"  :> << "#", "3", "3", "4", "1", "5", "5" >> @@
  "slate-800"  :> << "#", "1", "e", "2", "9", "3", "b" >> @@
  "slate-900"  :> << "#", "0", "f", "1", "7", "2", "a" >> @@
  "teal-100"   :> << "#", "c", "c", "f", "b", "f", "1" >> @@
  "teal-400"   :> << "#", "2", "d", "d", "4", "b", "f" >> @@
  "teal-600"   :> << "#", "0", "d", "9", "4", "8", "8" >> @@
  "teal-700"   :> << "#", "0", "f", "7", "6", "6", "e" >> @@
  "teal-900"   :> << "#", "1", "3", "4", "e", "4", "a" >> @@
  "rose-100"   :> << "#", "f", "f", "e", "4", "e", "6" >> @@
  "rose-400"   :> << "#", "f", "b", "7", "1", "8", "5" >> @@
  "rose-600"   :> << "#", "e", "1", "1", "d", "4", "8" >> @@
  "rose-700"   :> << "#", "b", "e", "1", "2", "3", "c" >> @@
  "rose-900"   :> << "#", "8", "8", "1", "3", "3", "7" >> @@
  "indigo-100" :> << "#", "e", "0", "e", "7", "f", "f" >> @@
  "indigo-400" :> << "#", "8", "1", "8", "c", "f", "8" >> @@
  "indigo-600" :> << "#", "4", "f", "4", "6", "e", "5" >> @@
  "indigo-700" :> << "#", "4", "3", "3", "8", "c", "a" >> @@
  "indigo-900" :> << "#", "3", "1", "2", "e", "8", "1" >>

\* the mutant of Lookup that falls back to black, as colors.get(label, '#000000')
LookupDefault(label) ==
    IF label \in DOMAIN colors THEN Ok(colors[label])
    ELSE Ok(<<"#", "0", "0", "0", "0", "0", "0">>)

\* colors[label]
Lookup(label) == IF label \in DOMAIN colors THEN Ok(colors[label]) ELSE Raise("KeyError")

\* hex_to_rgb(colors[label])
ColorOf(label) ==
    LET hex == Lookup(label) IN IF hex.err # "" THEN hex ELSE HexToRgb(hex.val)

(***************************************************************************)
(* The scenarios a run may hold: a plain or an overlay background, a       *)
(* foreground and a size, with labels and sizes the scripts do not know    *)
(* among them.                                                             *)
(***************************************************************************)
ScenarioBgs ==
    { <<"white">>, <<"teal-900", 3, "slate-800">>, <<"missing">>,
      <<"missing", 3, "slate-800">>, <<"teal-900", 3, "missing">> }
ScenarioFgs == {"teal-400", "teal-600", "rose-600", "missing"}
Sizes == {"normal", "large", "huge"}

Scenarios == [bg : ScenarioBgs, fg : ScenarioFgs, size : Sizes]

(***************************************************************************)
(* The for loop of contrast_check.py (lines 127-170) and of                *)
(* contrast_check_proposed.py (lines 108-133).  One step is one pass of    *)
(* the body on the next scenario s of the list: it prints a row, or an     *)
(* exception ends the script with the names assigned so far changed.  The  *)
(* columns 'mode' and 'text' of a row are copied from s and left out, and  *)
(* so are the names overlay_color, opacity, base_color_name, overlay_rgb   *)
(* and base_rgb, which lines 131-138 assign before they read them.         *)
(***************************************************************************)
\* lines 129-140 of contrast_check.py
ResolveBg(bg) ==
    IF Len(bg) = 3
    THEN LET overlay_rgb == ColorOf(bg[1])
             base_rgb == ColorOf(bg[3])
         IN  IF overlay_rgb.err # "" THEN overlay_rgb
             ELSE IF base_rgb.err # "" THEN base_rgb
             ELSE Ok(BlendColor(overlay_rgb.val, base_rgb.val, Opacity(bg[2])))
    ELSE ColorOf(bg[1])

\* line 109 of contrast_check_proposed.py: a tuple is no key of colors
ResolveBgProposed(bg) ==
    IF Len(bg) = 3 THEN Raise("KeyError") ELSE ColorOf(bg[1])

Row(s) ==
    [ratio |-> Format2(ratio'), passed |-> IF passed' THEN "YES" ELSE "NO",
     level |-> level', bg |-> s.bg, fg |-> s.fg]

Verdict ==
    [bg_rgb |-> bg_rgb', fg_rgb |-> fg_rgb', ratio |-> ratio', passed |-> passed',
     aaa_passed |-> aaa_passed', level |-> level']

Body(s, bg) ==
    LET fg == ColorOf(s.fg)
        c == Classify(ContrastRatio(fg.val, bg.val), s.size)
    IN  /\ scenarios' = Append(scenarios, s)
        /\ IF bg.err # ""
           THEN /\ status' = bg.err
                /\ UNCHANGED <<rows, verdicts, loopvars>>
           ELSE IF fg.err # ""
           THEN /\ status' = fg.err
                /\ bg_rgb' = bg.val
                /\ UNCHANGED <<rows, verdicts, fg_rgb, ratio, min_ratio, passed,
                               aaa_ratio, aaa_passed, level>>
           ELSE /\ bg_rgb' = bg.val
                /\ fg_rgb' = fg.val
                /\ ratio' = ContrastRatio(fg.val, bg.val)
                /\ min_ratio' = c.min_ratio
                /\ passed' = c.passed
                /\ aaa_ratio' = c.aaa_ratio
                /\ aaa_passed' = c.aaa_passed
                /\ level' = c.level
                /\ rows' = Append(rows, Row(s))
                /\ verdicts' = Append(verdicts, Verdict)
                /\ UNCHANGED status

Init ==
    /\ script \in {"contrast_check", "contrast_check_proposed"}
    /\ scenarios = <<>> /\ rows = <<>> /\ verdicts = <<>> /\ status = "running"
    /\ bg_rgb = <<>> /\ fg_rgb = <<>> /\ ratio = <<0, 1>> /\ min_ratio = <<0, 1>>
    /\ passed = FALSE /\ aaa_ratio = <<0, 1>> /\ aaa_passed = FALSE /\ level = ""
    /\ call = [fn |-> "none"] /\ ret = [done |-> FALSE, err |-> "", val |-> <<>>]

LoopBody ==
    /\ script = "contrast_check" /\ status = "running"
    /\ Len(scenarios) < MaxScenarios
    /\ \E s \in Scenarios : Body(s, ResolveBg(s.bg))
    /\ UNCHANGED <<script, call, ret>>

LoopBodyProposed ==
    /\ script = "contrast_check_proposed" /\ status = "running"
    /\ Len(scenarios) < MaxScenarios
    /\ \E s \in Scenarios : Body(s, ResolveBgProposed(s.bg))
    /\ UNCHANGED <<script, call, ret>>

\* the list is exhausted and the script ends
LoopExit ==
    /\ status = "running"
    /\ status' = "done"
    /\ UNCHANGED <<script, scenarios, rows, verdicts, loopvars, call, ret>>

Next == LoopBody \/ LoopBodyProposed \/ LoopExit

Spec == Init /\ [][Next]_vars

(***************************************************************************)
(* Single calls of hex_to_rgb: up to MaxHashes '#', then up to MaxHexLen   *)
(* characters of HexAlphabet; and up to MaxSignedLen characters of         *)
(* SignAlphabet.                                                           *)
(***************************************************************************)
HexAlphabet == {"1", "a", "F", "z"}
SignAlphabet == {"+", "-", "1"}

RECURSIVE Hashes(_)
Hashes(n) == IF n = 0 THEN <<>> ELSE <<"#">> \o Hashes(n - 1)

Strings(alphabet, n) == UNION { [1 .. k -> alphabet] : k \in 0 .. n }

NoLoop ==
    /\ script = "none" /\ scenarios = <<>> /\ rows = <<>> /\ verdicts = <<>> /\ status = "done"
    /\ bg_rgb = <<>> /\ fg_rgb = <<>> /\ ratio = <<0, 1>> /\ min_ratio = <<0, 1>>
    /\ passed = FALSE /\ aaa_ratio = <<0, 1>> /\ aaa_passed = FALSE /\ level = ""

Pending == [done |-> FALSE, err |-> "", val |-> <<>>]
Returned(r) == [done |-> TRUE, err |-> r.err, val |-> r.val]

InitParse ==
    /\ NoLoop
    /\ \/ \E n \in 0 .. MaxHashes, body \in Strings(HexAlphabet, MaxHexLen) :
              call = [fn |-> "hex_to_rgb", hex_color |-> Hashes(n) \o body]
       \/ \E s \in Strings(SignAlphabet, MaxSignedLen) :
              call = [fn |-> "hex_to_rgb", hex_color |-> s]
    /\ ret = Pending

CallHexToRgb ==
    /\ call.fn = "hex_to_rgb" /\ ~ret.done
    /\ ret' = Returned(HexToRgb(call.hex_color))
    /\ UNCHANGED <<script, scenarios, rows, verdicts, status, loopvars, call>>

NextParse == CallHexToRgb

SpecParse == InitParse /\ [][NextParse]_vars

\* the string without one leading '#', if it has one
StripOne(s) == IF s # <<>> /\ Head(s) = "#" THEN Tail(s) ELSE s

IsSixHex(s) == Len(s) = 6 /\ \A k \in 1 .. 6 : IsHexDigit(s[k])

TwoDigits(s, i) == 16 * HexValue[s[i]] + HexValue[s[i + 1]]

\* C3: a string of exactly six hexadecimal digits, of either case, with or
\* without one leading '#', parses to (digits 0-1, digits 2-3, digits 4-5),
\* each in 0..255.
C3_SixDigitsParse ==
    (call.fn = "hex_to_rgb" /\ ret.done /\ IsSixHex(StripOne(call.hex_color)))
        => LET d == StripOne(call.hex_color)
           IN  /\ ret.err = ""
               /\ ret.val = <<TwoDigits(d, 1), TwoDigits(d, 3), TwoDigits(d, 5)>>
               /\ \A i \in 1 .. 3 : ret.val[i] \in 0 .. 255

C3_Witness ==
    /\ call.fn = "hex_to_rgb" /\ ret.done
    /\ call.hex_color = <<"#", "1", "a", "F", "a", "F", "1">>
    /\ ret.val = <<26, 250, 241>>

\* C4: a string that, without one optional leading '#', is not exactly six
\* hexadecimal characters is rejected with an error and yields no Color.
C4_MalformedRejected ==
    (call.fn = "hex_to_rgb" /\ ret.done /\ ~IsSixHex(StripOne(call.hex_color)))
        => ret.err # ""

(***************************************************************************)
(* Single calls of blend_color, on opacity literals from OpacityBelow      *)
(* tenths under 0.0 to OpacityAbove tenths over 1.0.                       *)
(***************************************************************************)
BlendColors ==
    { HexToRgb(colors[l]).val :
        l \in {"white", "black", "teal-900", "slate-800", "slate-900", "rose-900", "indigo-900"} }
    \cup { <<0, 90, 170>>, <<1, 11, 51>>, <<3, 3, 3>>, <<10, 100, 200>> }

InitBlend ==
    /\ NoLoop
    /\ \E f \in BlendColors, b \in BlendColors, t \in (0 - OpacityBelow) .. (10 + OpacityAbove) :
           call = [fn |-> "blend_color", fg_rgb |-> f, bg_rgb |-> b, tenths |-> t]
    /\ ret = Pending

CallBlendColor ==
    /\ call.fn = "blend_color" /\ ~ret.done
    /\ ret' = Returned(Ok(BlendColor(call.fg_rgb, call.bg_rgb, Opacity(call.tenths))))
    /\ UNCHANGED <<script, scenarios, rows, verdicts, status, loopvars, call>>

NextBlend == CallBlendColor

SpecBlend == InitBlend /\ [][NextBlend]_vars

\* overlay * a + base * (1 - a) as Python's floats evaluate it
FloatBlend(o, b, a) == FAdd(FMul(o, a), FMul(b, FSub(FOne, a)))

\* overlay * a + base * (1 - a) over the reals, a being the double passed
RealBlend(o, b, a) == XAdd(XMul(o, a), XMul(b, XSub(FOne, a)))

\* floor(overlay * a + base * (1 - a)) over the reals, a being tenths / 10
DecimalBlendFloor(o, b, tenths) == (o * tenths + b * (10 - tenths)) \div 10

BlendReturned == call.fn = "blend_color" /\ ret.done

InUnitRange(tenths) == tenths \in 0 .. 10

Abs(n) == IF n < 0 THEN 0 - n ELSE n

\* C2 as stated: for an opacity in [0.0, 1.0] every channel of the result is
\* floor(overlay * a + base * (1 - a)), the value taken over the reals, with a
\* read either as the double passed or as the decimal literal.
C2_ExactFloor ==
    (BlendReturned /\ InUnitRange(call.tenths))
        => \A i \in 1 .. 3 :
               ret.val[i] \in
                   { FFloor(RealBlend(call.fg_rgb[i], call.bg_rgb[i], Opacity(call.tenths))),
                     DecimalBlendFloor(call.fg_rgb[i], call.bg_rgb[i], call.tenths) }

\* C2 amended: for an opacity in [0.0, 1.0] every channel of the result is the
\* floor of overlay * a + base * (1 - a) evaluated in double precision (each
\* product, the difference and the sum rounded), which is within one unit of
\* the floor of the exact value; opacity 0.0 returns exactly the base color
\* and opacity 1.0 exactly the overlay color.
C2_FloatFloor ==
    (BlendReturned /\ InUnitRange(call.tenths))
        => /\ \A i \in 1 .. 3 :
                  LET o == call.fg_rgb[i]
                      b == call.bg_rgb[i]
                      a == Opacity(call.tenths)
                  IN  /\ ret.val[i] = FFloor(FloatBlend(o, b, a))
                      /\ Abs(ret.val[i] - FFloor(RealBlend(o, b, a))) <= 1
                      /\ Abs(ret.val[i] - DecimalBlendFloor(o, b, call.tenths)) <= 1
           /\ call.tenths = 0 => ret.val = call.bg_rgb
           /\ call.tenths = 10 => ret.val = call.fg_rgb

\* black at 0.3 over (0, 90, 170): the exact values are 0, 63 and 119
C2_Witness ==
    /\ BlendReturned /\ call.tenths = 3
    /\ call.fg_rgb = <<0, 0, 0>> /\ call.bg_rgb = <<0, 90, 170>>
    /\ ret.val = <<0, 62, 118>>

\* C5: an opacity outside [0.0, 1.0] is rejected with an error and no blended
\* color is produced.
C5_OutOfRangeRejected ==
    (BlendReturned /\ ~InUnitRange(call.tenths)) => ret.err # ""

\* overlay * a + base * (1 - a) rounded to the nearest integer: the value as
\* the floats give it or over the reals, a half rounded away from zero or to
\* the even integer
NearestBlends(o, b, a) ==
    { FNearest(FloatBlend(o, b, a)), FNearestEven(FloatBlend(o, b, a)),
      FNearest(RealBlend(o, b, a)), FNearestEven(RealBlend(o, b, a)) }

\* t lies nearer to the base channel b than n does
CloserToBase(t, n, b) == Abs(t - b) < Abs(n - b)

\* C12 as stated: for an opacity in [0.0, 1.0] the truncated channel differs
\* from the round-to-nearest value of overlay * a + base * (1 - a) by at most
\* 1, and whenever they differ the truncated value is the one closer to the
\* base channel (whichever way the nearest value is read).
C12_BiasTowardBase ==
    (BlendReturned /\ InUnitRange(call.tenths))
        => \A i \in 1 .. 3 :
               \E n \in NearestBlends(call.fg_rgb[i], call.bg_rgb[i], Opacity(call.tenths)) :
                   /\ Abs(ret.val[i] - n) <= 1
                   /\ ret.val[i] # n => CloserToBase(ret.val[i], n, call.bg_rgb[i])

\* C12 amended: for an opacity in [0.0, 1.0] the truncated channel is the
\* round-to-nearest value of overlay * a + base * (1 - a) or one unit below it,
\* never above (the bias is toward zero); when the two differ the truncated
\* value is the one closer to the base channel exactly when the base channel
\* is below the overlay channel, and otherwise it is the one farther from it.
C12_BiasTowardZero ==
    (BlendReturned /\ InUnitRange(call.tenths))
        => \A i \in 1 .. 3 :
               \A n \in NearestBlends(call.fg_rgb[i], call.bg_rgb[i], Opacity(call.tenths)) :
                   /\ n - ret.val[i] \in {0, 1}
                   /\ ret.val[i] # n =>
                          (CloserToBase(ret.val[i], n, call.bg_rgb[i])
                               <=> call.bg_rgb[i] < call.fg_rgb[i])

\* black at 0.5 over white: the value is 127.5, truncated to 127 while every
\* rounding gives 128, which is the closer one to the base channel 255
C12_Witness ==
    /\ BlendReturned /\ call.tenths = 5
    /\ call.fg_rgb = <<0, 0, 0>> /\ call.bg_rgb = <<255, 255, 255>>
    /\ ret.val = <<127, 127, 127>>
    /\ NearestBlends(0, 255, Opacity(5)) = {128}

(***************************************************************************)
(* Single calls of luminance and contrast_ratio, on the palette's colors   *)
(* and on every color whose channels are among ChannelSamples (10 and 11   *)
(* lie either side of the 0.03928 breakpoint of line 33).                  *)
(***************************************************************************)
ChannelSamples == {0, 10, 11, 128, 255}

ContrastColors ==
    { HexToRgb(colors[l]).val : l \in DOMAIN colors }
    \cup { <<r, g, b>> : r \in ChannelSamples, g \in ChannelSamples, b \in ChannelSamples }

InitContrast ==
    /\ NoLoop
    /\ \/ \E c \in ContrastColors : call = [fn |-> "luminance", rgb |-> c]
       \/ \E c1 \in ContrastColors, c2 \in ContrastColors :
              call = [fn |-> "contrast_ratio", rgb1 |-> c1, rgb2 |-> c2]
    /\ ret = Pending

CallLuminance ==
    /\ call.fn = "luminance" /\ ~ret.done
    /\ ret' = Returned(Ok(Luminance(call.rgb)))
    /\ UNCHANGED <<script, scenarios, rows, verdicts, status, loopvars, call>>

CallContrastRatio ==
    /\ call.fn = "contrast_ratio" /\ ~ret.done
    /\ ret' = Returned(Ok(ContrastRatio(call.rgb1, call.rgb2)))
    /\ UNCHANGED <<script, scenarios, rows, verdicts, status, loopvars, call>>

NextContrast == CallLuminance \/ CallContrastRatio

SpecContrast == InitContrast /\ [][NextContrast]_vars

\* C8: the luminance of a color with channels in 0..255 lies in [0.0, 1.0],
\* and the contrast ratio of two such colors is at least 1.0 and at most 21.0.
C8_LuminanceAndRatioBounds ==
    /\ (call.fn = "luminance" /\ ret.done) => (0 <= ret.val /\ ret.val <= LumOne)
    /\ (call.fn = "contrast_ratio" /\ ret.done)
           => /\ ret.val[2] > 0
              /\ ret.val[1] >= ret.val[2]
              /\ ret.val[1] <= 21 * ret.val[2]

\* black against white: the ratio is exactly 21
C8_Witness ==
    /\ call.fn = "contrast_ratio" /\ ret.done
    /\ call.rgb1 = <<0, 0, 0>> /\ call.rgb2 = <<255, 255, 255>>
    /\ ret.val[1] = 21 * ret.val[2]

\* C9: contrast_ratio(A, B) equals contrast_ratio(B, A), and so the verdict
\* for any size is the same with the two colors exchanged.
C9_RatioSymmetric ==
    (call.fn = "contrast_ratio" /\ ret.done)
        => /\ ContrastRatio(call.rgb2, call.rgb1) = ret.val
           /\ \A size \in Sizes :
                  Classify(ContrastRatio(call.rgb2, call.rgb1), size) = Classify(ret.val, size)

\* teal-600 called against white, the darker color first
C9_Witness ==
    /\ call.fn = "contrast_ratio" /\ ret.done
    /\ call.rgb1 = <<13, 148, 136>> /\ call.rgb2 = <<255, 255, 255>>
    /\ Luminance(call.rgb1) < Luminance(call.rgb2)
    /\ Format2(ret.val) = 374

(***************************************************************************)
(* The WCAG check alone, on every ratio of 0.00 .. MaxRatioHundredths      *)
(* hundredths and every size.                                              *)
(***************************************************************************)
InitClassify ==
    /\ NoLoop
    /\ \E n \in 0 .. MaxRatioHundredths, size \in Sizes :
           call = [fn |-> "classify", ratio |-> <<n, 100>>, size |-> size]
    /\ ret = Pending

CallClassify ==
    /\ call.fn = "classify" /\ ~ret.done
    /\ ret' = Returned(Ok(Classify(call.ratio, call.size)))
    /\ UNCHANGED <<script, scenarios, rows, verdicts, status, loopvars, call>>

NextClassify == CallClassify

SpecClassify == InitClassify /\ [][NextClassify]_vars

\* the minimums of the table, in hundredths
AAMinimum(size) == IF size = "normal" THEN 450 ELSE 300
AAAMinimum(size) == IF size = "normal" THEN 700 ELSE 450

\* C1: for the sizes normal and large, AA passes iff ratio >= the AA minimum
\* (4.5 normal, 3.0 large), AAA passes iff ratio >= the AAA minimum (7.0
\* normal, 4.5 large), the level is AAA if AAA passes, else AA if AA passes,
\* else Fail; a ratio equal to a minimum passes it.
C1_Classification ==
    (call.fn = "classify" /\ ret.done /\ call.size \in {"normal", "large"})
        => LET n == call.ratio[1]
               aa == n >= AAMinimum(call.size)
               aaa == n >= AAAMinimum(call.size)
           IN  /\ ret.val.passed = aa
               /\ ret.val.aaa_passed = aaa
               /\ ret.val.level = IF aaa THEN "AAA" ELSE IF aa THEN "AA" ELSE "Fail"

\* a ratio of exactly 4.5 at size normal: AA passes, AAA does not
C1_Witness ==
    /\ call.fn = "classify" /\ ret.done
    /\ call.ratio = <<450, 100>> /\ call.size = "normal"
    /\ ret.val.passed /\ ~ret.val.aaa_passed /\ ret.val.level = "AA"

(***************************************************************************)
(* Claims about the loop.  The script stops at the first exception, so     *)
(* every scenario taken before the last one has its row: rows[j] and       *)
(* verdicts[j] belong to scenarios[j].                                     *)
(***************************************************************************)
LabelsOf(s) ==
    {s.fg} \cup (IF Len(s.bg) = 3 THEN {s.bg[1], s.bg[3]} ELSE {s.bg[1]})

RefersMissing(s) == \E label \in LabelsOf(s) : label \notin DOMAIN colors

Taken == Len(scenarios') = Len(scenarios) + 1

\* C6: a scenario whose size is neither normal nor large fails, and no verdict
\* (pass flag or level) is produced for it.
C6_UnknownSizeRejected ==
    \A j \in 1 .. Len(rows) : scenarios[j].size \in {"normal", "large"}

\* C7: when the scenario taken refers to a background, overlay, base or
\* foreground label that is not in the palette, the step ends in an error and
\* prints no row for it; and no step changes a row already printed.
C7_MissingLabelAborts ==
    [][ /\ (Taken /\ RefersMissing(scenarios'[Len(scenarios')]))
            => (status' \notin {"running", "done"} /\ rows' = rows)
        /\ Len(rows') >= Len(rows)
        /\ SubSeq(rows', 1, Len(rows)) = rows ]_vars

\* two rows are out and the third scenario names a base label that is missing
C7_Witness ==
    /\ script = "contrast_check"
    /\ Len(scenarios) = 3 /\ Len(rows) = 2
    /\ scenarios[3].bg = <<"teal-900", 3, "missing">>
    /\ scenarios[3].fg = "teal-600"
    /\ status = "KeyError"

\* C10: what is computed and printed for a scenario depends on that scenario
\* and the palette alone: wherever the same scenario stands in the list, and
\* whatever was evaluated before it, its effective background, ratio, pass
\* flags, level and row are the same.
C10_ScenarioIndependent ==
    \A j \in 1 .. Len(rows) : \A k \in 1 .. Len(rows) :
        scenarios[j] = scenarios[k]
            => (rows[j] = rows[k] /\ verdicts[j] = verdicts[k])

\* a normal-size scenario that fails, evaluated before and after a large-size
\* overlay scenario that passes
C10_Witness ==
    /\ Len(rows) = 3
    /\ scenarios[1] = [bg |-> <<"white">>, fg |-> "teal-600", size |-> "normal"]
    /\ scenarios[2] = [bg |-> <<"teal-900", 3, "slate-800">>, fg |-> "teal-600", size |-> "large"]
    /\ scenarios[3] = scenarios[1]
    /\ verdicts[2].bg_rgb = <<26, 52, 63>>
    /\ rows[2] = [ratio |-> 349, passed |-> "YES", level |-> "AA",
                  bg |-> <<"teal-900", 3, "slate-800">>, fg |-> "teal-600"]
    /\ rows[3] = [ratio |-> 374, passed |-> "NO", level |-> "Fail",
                  bg |-> <<"white">>, fg |-> "teal-600"]

\* the background of the scripts' scenario Dark / Icon Teal (line 116)
IconTealBg == <<"teal-900", 3, "slate-800">>

\* the rows whose scenario has the background bg
WithBg(bg) == { j \in 1 .. Len(rows) : scenarios[j].bg = bg }

\* C11 as stated: teal-900 at opacity 0.3 over slate-800 resolves to the
\* effective background (34, 46, 54), which is used for the contrast ratio.
C11_EffectiveBackground_34_46_54 ==
    \A j \in WithBg(IconTealBg) : verdicts[j].bg_rgb = <<34, 46, 54>>

\* C11 amended: teal-900 (19, 78, 74) at opacity 0.3 over slate-800
\* (30, 41, 59) resolves, truncated, to the effective background (26, 52, 63)
\* (the exact values are 26.7, 52.1 and 63.5), and the contrast ratio is that
\* of the foreground against (26, 52, 63).
C11_EffectiveBackground ==
    \A j \in WithBg(IconTealBg) :
        /\ script = "contrast_check"
        /\ verdicts[j].bg_rgb = <<26, 52, 63>>
        /\ verdicts[j].ratio = ContrastRatio(HexToRgb(colors[scenarios[j].fg]).val, <<26, 52, 63>>)

\* the scenario of line 116: foreground teal-400, size large, printed 7.02 AAA
C11_Witness ==
    /\ script = "contrast_check" /\ Len(rows) = 1
    /\ scenarios[1] = [bg |-> IconTealBg, fg |-> "teal-400", size |-> "large"]
    /\ bg_rgb = <<26, 52, 63>> /\ fg_rgb = <<45, 212, 191>>
    /\ rows[1] = [ratio |-> 702, passed |-> "YES", level |-> "AAA",
                  bg |-> IconTealBg, fg |-> "teal-400"]

====
